---- MODULE Spec2Model ----
(***************************************************************************)
(* phixiv: the compact activity-id codec (helper.rs), the memoized listing *)
(* builder (pixiv/mod.rs, #[cached] SizedCache) and the two renderers      *)
(* (ArtworkListing::to_template, activity_handler).                        *)
(*                                                                         *)
(* Machine integers wider than TLC's are little-endian byte sequences:     *)
(* a u64 is 8 bytes, a u32 is 4 bytes (index 1 is the least significant    *)
(* byte).  u16/usize values that stay small are Integers.  Rust strings    *)
(* are sequences of one-character strings.                                 *)
(***************************************************************************)
EXTENDS Integers, Sequences, FiniteSets, TLC

VARIABLES
    cdc_t,      \* codec: the ActivityId handed to u64::from, or None
    cdc_enc,    \* codec: u64::from(cdc_t), or None
    cdc_rt,     \* codec: ActivityId::from(cdc_enc), or None
    cdc_v,      \* codec: the u64 handed to ActivityId::from, or None
    cdc_dec,    \* codec: ActivityId::from(cdc_v), or None
    cdc_back,   \* codec: u64::from(cdc_dec), or None
    cap_html,   \* caption: the string handed to extract_html_inner_text, or None
    cap_text,   \* caption: what extract_html_inner_text returned for it, or None
    env,        \* the process environment: UGOIRA_ENABLED, THUMBNAIL_TYPE
    cache,      \* the SizedCache of cached_get_listing, most recently used first
    pc,         \* per request task: where its handler stands
    req,        \* per request task: the call it made to get_listing
    fetched,    \* per request task: the answer of ajax_request its build works on, or None
    built,      \* per request task: the listing its own build returned, or None
    resp,       \* per request task: what the handler answered
    recency,    \* history: the cached keys by last use (hit or write), latest first
    lastRet     \* history: per key, the listing last returned for it while still cached

\* Option<T>: None is the empty sequence, Some(x) the one-element sequence
None == <<>>
Some(x) == <<x>>

Min(a, b) == IF a <= b THEN a ELSE b

(***************************************************************************)
(* Bits and bytes                                                          *)
(***************************************************************************)
RECURSIVE BitOr(_, _)
BitOr(a, b) ==
    IF a = 0 THEN b
    ELSE IF b = 0 THEN a
    ELSE (IF a % 2 = 1 \/ b % 2 = 1 THEN 1 ELSE 0) + 2 * BitOr(a \div 2, b \div 2)

RECURSIVE BitAnd(_, _)
BitAnd(a, b) ==
    IF a = 0 \/ b = 0 THEN 0
    ELSE (IF a % 2 = 1 /\ b % 2 = 1 THEN 1 ELSE 0) + 2 * BitAnd(a \div 2, b \div 2)

RECURSIVE ByteOf(_, _)
\* byte i (1 = least significant) of the non-negative Integer n
ByteOf(n, i) == IF i = 1 THEN n % 256 ELSE ByteOf(n \div 256, i - 1)

\* `n as u64` for an Integer n
U64(n) == [i \in 1..8 |-> ByteOf(n, i)]

\* `b as u64` for a u32 b
U32AsU64(b) == [i \in 1..8 |-> IF i <= 4 THEN b[i] ELSE 0]

\* `w as u32`, `w as u16` for a u64 w (truncating casts)
AsU32(w) == [i \in 1..4 |-> w[i]]
AsU16(w) == w[1] + 256 * w[2]

\* w << bits and w >> bits on u64, bits a multiple of 8 below 64:
\* bytes shifted past either end are dropped
Shl(w, bits) == [i \in 1..8 |-> IF i > bits \div 8 THEN w[i - bits \div 8] ELSE 0]
Shr(w, bits) == [i \in 1..8 |-> IF i + bits \div 8 <= 8 THEN w[i + bits \div 8] ELSE 0]

And64(a, b) == [i \in 1..8 |-> BitAnd(a[i], b[i])]
Or64(a, b) == [i \in 1..8 |-> BitOr(a[i], b[i])]

\* the masks 0xFF, 0xFFFF, 0xFFFFFFFF
MaskFF == [i \in 1..8 |-> IF i <= 1 THEN 255 ELSE 0]
MaskFFFF == [i \in 1..8 |-> IF i <= 2 THEN 255 ELSE 0]
MaskFFFFFFFF == [i \in 1..8 |-> IF i <= 4 THEN 255 ELSE 0]

(***************************************************************************)
(* Languages                                                               *)
(***************************************************************************)
jp == <<"j", "p">>
en == <<"e", "n">>
zh == <<"z", "h">>
zh_tw == <<"z", "h", "_", "t", "w">>
ko == <<"k", "o">>
fr == <<"f", "r">>

KnownLanguages == {jp, en, zh, zh_tw, ko}

(***************************************************************************)
(* helper.rs: ActivityId <-> u64                                           *)
(***************************************************************************)
\* mutant: the id field is masked to 16 bits instead of 32
FromU64_NarrowId(value) ==
    LET offset_end == And64(Shr(value, 56), MaskFF)
        lang_id == And64(Shr(value, 48), MaskFF)
        id == And64(Shr(value, 16), MaskFFFF)
        index == And64(value, MaskFFFF)
        language ==
            CASE lang_id = U64(0) -> jp
              [] lang_id = U64(1) -> en
              [] lang_id = U64(2) -> zh
              [] lang_id = U64(3) -> zh_tw
              [] lang_id = U64(4) -> ko
              [] OTHER -> jp
    IN  [language |-> language, id |-> AsU32(id), index |-> AsU16(index),
         offset_end |-> AsU16(offset_end)]

\* impl From<u64> for ActivityId
FromU64(value) ==
    LET offset_end == And64(Shr(value, 56), MaskFF)
        lang_id == And64(Shr(value, 48), MaskFF)
        id == And64(Shr(value, 16), MaskFFFFFFFF)
        index == And64(value, MaskFFFF)
        language ==
            CASE lang_id = U64(0) -> jp
              [] lang_id = U64(1) -> en
              [] lang_id = U64(2) -> zh
              [] lang_id = U64(3) -> zh_tw
              [] lang_id = U64(4) -> ko
              [] OTHER -> jp
    IN  [language |-> language, id |-> AsU32(id), index |-> AsU16(index),
         offset_end |-> AsU16(offset_end)]

\* the match of u64::from on the language string
LangId(language) ==
    CASE language = jp -> 0
      [] language = en -> 1
      [] language = zh -> 2
      [] language = zh_tw -> 3
      [] language = ko -> 4
      [] OTHER -> 0

\* mutant: the language id lands one byte too low (<< 40)
ToU64_LangShift40(value) ==
    Or64(Or64(Or64(Shl(U64(Min(value.offset_end, 255)), 56),
                   Shl(U64(LangId(value.language)), 40)),
              Shl(U32AsU64(value.id), 16)),
         U64(value.index))

\* mutant: offset_end is not clamped before the shift
ToU64_NoClamp(value) ==
    Or64(Or64(Or64(Shl(U64(value.offset_end), 56),
                   Shl(U64(LangId(value.language)), 48)),
              Shl(U32AsU64(value.id), 16)),
         U64(value.index))

\* impl From<ActivityId> for u64
ToU64(value) ==
    Or64(Or64(Or64(Shl(U64(Min(value.offset_end, 255)), 56),
                   Shl(U64(LangId(value.language)), 48)),
              Shl(U32AsU64(value.id), 16)),
         U64(value.index))

(***************************************************************************)
(* Strings                                                                 *)
(***************************************************************************)
Digits == {"0", "1", "2", "3", "4", "5", "6", "7", "8", "9"}

\* char::is_numeric is true of the ASCII digits and of other Unicode
\* numerics too, of which the superscript two stands here
IsNumeric(c) == c \in Digits \cup {"^2"}

DigitValue(c) ==
    CASE c = "0" -> 0 [] c = "1" -> 1 [] c = "2" -> 2 [] c = "3" -> 3
      [] c = "4" -> 4 [] c = "5" -> 5 [] c = "6" -> 6 [] c = "7" -> 7
      [] c = "8" -> 8 [] c = "9" -> 9

RECURSIVE TakeWhileNumeric(_)
\* s.chars().take_while(|c| c.is_numeric()).collect::<String>()
TakeWhileNumeric(s) ==
    IF s = <<>> \/ ~IsNumeric(Head(s)) THEN <<>>
    ELSE <<Head(s)>> \o TakeWhileNumeric(Tail(s))

RECURSIVE MulAddCarry(_, _, _)
\* the carry out of byte i when the little-endian number b is replaced by b * 10 + d
MulAddCarry(b, d, i) ==
    IF i = 0 THEN d ELSE (b[i] * 10 + MulAddCarry(b, d, i - 1)) \div 256

MulAdd(b, d) == [i \in DOMAIN b |-> (b[i] * 10 + MulAddCarry(b, d, i - 1)) % 256]

RECURSIVE ParseFrom(_, _)
\* str::parse for an unsigned integer of Len(acc) bytes, digits still to read in s:
\* Some(bytes), or None on a character that is no ASCII digit or on overflow
ParseFrom(s, acc) ==
    IF s = <<>> THEN Some(acc)
    ELSE IF Head(s) \notin Digits THEN None
    ELSE IF MulAddCarry(acc, DigitValue(Head(s)), Len(acc)) > 0 THEN None
    ELSE ParseFrom(Tail(s), MulAdd(acc, DigitValue(Head(s))))

\* s.parse::<uN>() for N = 8 * width; the empty string is an error
ParseUnsigned(s, width) ==
    IF s = <<>> THEN None ELSE ParseFrom(s, [i \in 1..width |-> 0])

RECURSIVE RemAbove(_, _)
\* the remainder modulo 10 of the bytes of b above position i - 1
RemAbove(b, i) == IF i > Len(b) THEN 0 ELSE (RemAbove(b, i + 1) * 256 + b[i]) % 10

Div10(b) == [i \in DOMAIN b |-> (RemAbove(b, i + 1) * 256 + b[i]) \div 10]

IsZero(b) == \A i \in DOMAIN b : b[i] = 0

RECURSIVE DecDigits(_)
DecDigits(b) == IF IsZero(b) THEN <<>> ELSE DecDigits(Div10(b)) \o <<ToString(RemAbove(b, 1))>>

\* u32::to_string
U32ToString(b) == IF IsZero(b) THEN <<"0">> ELSE DecDigits(b)

\* (n as usize).min(m) for a usize n held as bytes and a small m
UsizeMin(n, m) ==
    IF \E i \in 4..Len(n) : n[i] # 0 THEN m
    ELSE Min(n[1] + 256 * n[2] + 65536 * n[3], m)

vars == <<cdc_t, cdc_enc, cdc_rt, cdc_v, cdc_dec, cdc_back, cap_html, cap_text,
          env, cache, pc, req, fetched, built, resp, recency, lastRet>>

codecVars == <<cdc_t, cdc_enc, cdc_rt, cdc_v, cdc_dec, cdc_back>>
captionVars == <<cap_html, cap_text>>
mainVars == <<env, cache, pc, req, fetched, built, resp, recency, lastRet>>

\* the request tasks that may run concurrently
Tasks == {"t1", "t2"}

NoReq == [handler |-> "none", language |-> <<>>, illust_id |-> <<>>, host |-> "",
          image_index |-> None, index |-> 0, offset_end |-> 0]
NoResp == [status |-> "none", cause |-> "", from |-> "", listing |-> None,
           index |-> None, index_end |-> None, activity_id |-> None, overwrote |-> FALSE]

\* the server before any request
ColdStart ==
    /\ cache = <<>>
    /\ pc = [t \in Tasks |-> "idle"]
    /\ req = [t \in Tasks |-> NoReq]
    /\ fetched = [t \in Tasks |-> None]
    /\ built = [t \in Tasks |-> None]
    /\ resp = [t \in Tasks |-> NoResp]
    /\ recency = <<>>
    /\ lastRet = {}

(***************************************************************************)
(* The codec on its own: one value through u64::from and back, one u64     *)
(* through ActivityId::from and back                                       *)
(***************************************************************************)
ByteSpread == 1
LangByteSpread == 5

SampleBytes == (0..ByteSpread) \cup ((255 - ByteSpread)..255)
SampleU16 == {lo + 256 * hi : lo \in SampleBytes, hi \in SampleBytes}
SampleOffsets == {lo + 256 * hi : lo \in SampleBytes, hi \in {0, 1, 255}}
SampleU32 ==
    {[i \in 1..4 |-> x] : x \in SampleBytes}
    \cup {[i \in 1..4 |-> IF i = k THEN x ELSE 0] : k \in 1..4, x \in SampleBytes}
SampleLangBytes == (0..LangByteSpread) \cup {255}
SampleActivityIds ==
    [language : KnownLanguages \cup {fr}, id : SampleU32, index : SampleU16,
     offset_end : SampleOffsets]
SampleU64 ==
    {[i \in 1..8 |-> CASE i <= 2 -> ByteOf(x, i)
                       [] i \in 3..6 -> d[i - 2]
                       [] i = 7 -> l
                       [] i = 8 -> o] :
        x \in SampleU16, d \in SampleU32, l \in SampleLangBytes, o \in SampleBytes}

InitCodec ==
    /\ \/ cdc_t \in {Some(t) : t \in SampleActivityIds} /\ cdc_v = None
       \/ cdc_v \in {Some(v) : v \in SampleU64} /\ cdc_t = None
    /\ cdc_enc = None /\ cdc_rt = None /\ cdc_dec = None /\ cdc_back = None
    /\ cap_html = None /\ cap_text = None
    /\ env = [ugoira_enabled |-> FALSE, thumbnail_type |-> None]
    /\ ColdStart

Encode ==
    /\ cdc_t # None /\ cdc_enc = None
    /\ cdc_enc' = Some(ToU64(cdc_t[1]))
    /\ UNCHANGED <<cdc_t, cdc_rt, cdc_v, cdc_dec, cdc_back, mainVars, captionVars>>

DecodeEncoded ==
    /\ cdc_enc # None /\ cdc_rt = None
    /\ cdc_rt' = Some(FromU64(cdc_enc[1]))
    /\ UNCHANGED <<cdc_t, cdc_enc, cdc_v, cdc_dec, cdc_back, mainVars, captionVars>>

Decode ==
    /\ cdc_v # None /\ cdc_dec = None
    /\ cdc_dec' = Some(FromU64(cdc_v[1]))
    /\ UNCHANGED <<cdc_t, cdc_enc, cdc_rt, cdc_v, cdc_back, mainVars, captionVars>>

EncodeDecoded ==
    /\ cdc_dec # None /\ cdc_back = None
    /\ cdc_back' = Some(ToU64(cdc_dec[1]))
    /\ UNCHANGED <<cdc_t, cdc_enc, cdc_rt, cdc_v, cdc_dec, mainVars, captionVars>>

NextCodec == Encode \/ DecodeEncoded \/ Decode \/ EncodeDecoded

SpecCodec == InitCodec /\ [][NextCodec]_vars

\* the field ranges of the claims: a known language, offset_end in 0..255
\* (id and index are within 32 and 16 bits by their types)
KnownLanguage(t) == t.language \in KnownLanguages
OffsetInRange(t) == t.offset_end \in 0..255

\* C1: for every ActivityId t with a language among jp/en/zh/zh_tw/ko, a 32-bit id,
\* a 16-bit index and offset_end in 0..255, decoding the u64 encoded from t gives
\* back t, all four fields equal.
C1_RoundTrip ==
    (cdc_rt # None /\ KnownLanguage(cdc_t[1]) /\ OffsetInRange(cdc_t[1]))
        => cdc_rt[1] = cdc_t[1]

\* a round trip of a value with the highest id, a two-byte index and the largest
\* offset_end in range has been made
C1_Witness ==
    /\ cdc_rt # None
    /\ cdc_t[1].language = zh_tw
    /\ cdc_t[1].id = [i \in 1..4 |-> 255]
    /\ cdc_t[1].index = 65535
    /\ cdc_t[1].offset_end = 255

\* C2 as stated: for every 64-bit v, encode(decode(v)) = v, whatever its language byte.
C2_Original == cdc_back # None => cdc_back[1] = cdc_v[1]

\* C2 as amended: for every 64-bit v whose language byte (bits 55..48) is in 0..4,
\* encode(decode(v)) = v; a language byte outside 0..4 comes back as 0.
C2_KnownLanguageByte ==
    cdc_back # None =>
        /\ cdc_v[1][7] \in 0..4 => cdc_back[1] = cdc_v[1]
        /\ cdc_v[1][7] \notin 0..4 =>
              cdc_back[1] = [cdc_v[1] EXCEPT ![7] = 0]

\* a u64 with every other byte at its highest and language byte 4 went both ways,
C2_Witness ==
    /\ cdc_back # None
    /\ cdc_v[1] = [i \in 1..8 |-> IF i = 7 THEN 4 ELSE 255]

\* C3 as stated: for every ActivityId with offset_end above 255, whatever its
\* language, encode then decode gives offset_end 255 and the language, id and index
\* unchanged.
C3_Original ==
    (cdc_rt # None /\ cdc_t[1].offset_end > 255) =>
        /\ cdc_rt[1].offset_end = 255
        /\ cdc_rt[1].language = cdc_t[1].language
        /\ cdc_rt[1].id = cdc_t[1].id
        /\ cdc_rt[1].index = cdc_t[1].index

\* C3 as amended: encoding never fails; for an ActivityId with offset_end above 255
\* encode then decode gives offset_end 255, the id and index unchanged, and the
\* language unchanged when it is one of jp/en/zh/zh_tw/ko (jp otherwise): the
\* clamped offset touches no bit of the other three fields.
C3_Clamp ==
    /\ cdc_t # None => ENABLED Encode \/ cdc_enc # None
    /\ (cdc_rt # None /\ cdc_t[1].offset_end > 255) =>
        /\ cdc_rt[1].offset_end = 255
        /\ cdc_rt[1].id = cdc_t[1].id
        /\ cdc_rt[1].index = cdc_t[1].index
        /\ cdc_rt[1].language =
              (IF KnownLanguage(cdc_t[1]) THEN cdc_t[1].language ELSE jp)
        /\ cdc_enc[1] = [ToU64([cdc_t[1] EXCEPT !.offset_end = 0]) EXCEPT ![8] = 255]

\* an offset_end of 0x0100, whose low byte is 0, was encoded and decoded
C3_Witness ==
    /\ cdc_rt # None
    /\ cdc_t[1].offset_end = 256
    /\ cdc_t[1].language = ko
    /\ cdc_rt[1].offset_end = 255

(***************************************************************************)
(* pixiv/mod.rs: URLs.  A path is a sequence of tokens, so that the page   *)
(* marker "_p0_" and the segment "img-master" are tokens of their own and  *)
(* str::replace is a replacement of tokens.                                *)
(***************************************************************************)
\* urls.regular and urls.original as upstream sends them; the original file
\* name ends "_p0.png" and so holds no "_p0_"
RegularUrl == [valid |-> TRUE, path |-> <<"img-master", "/img/1", "_p0_">>]
OriginalUrl == [valid |-> TRUE, path |-> <<"img-original", "/img/1", "_p0">>]
\* urls.original of an animated artwork: the file of its first frame
UgoiraFrameUrl == [valid |-> TRUE, path |-> <<"img-original", "/img/1", "_ugoira0">>]
\* a profileImageUrl of userIllusts
ProfileUrl == [valid |-> TRUE, path |-> <<"/user-profile", "/img/1">>]
\* a string url::Url::parse rejects
BadUrl == [valid |-> FALSE, path |-> <<>>]

\* url::Url::parse(s) followed by .path()
UrlPath(u) == IF u.valid THEN Some(u.path) ELSE None

\* path.replace(from, to)
Replace(path, from, to) == [k \in DOMAIN path |-> IF path[k] = from THEN to ELSE path[k]]

\* format!("_p{}_", i)
PageMarker(i) == "_p" \o ToString(i) \o "_"

\* format!("https://{}/i{}", host, path)
ProxyUrl(host, path) == [host |-> host, path |-> <<"/i">> \o path]

\* format!("https://{}/i/ugoira/{}.mp4", host, clean_illust_id)
UgoiraUrl(host, clean_illust_id) ==
    [host |-> host, path |-> <<"/i", "/ugoira/">> \o clean_illust_id \o <<".mp4">>]

\* the pieces of a URL that hold the letters "ugoira"
HasUgoira(piece) == piece \in {"/ugoira/", "_ugoira0", "ugoira.phixiv.net"}

\* url.contains("ugoira"), url being "https://{host}/i{path}"
ContainsUgoira(url) == HasUgoira(url.host) \/ \E k \in DOMAIN url.path : HasUgoira(url.path[k])

(***************************************************************************)
(* pixiv/mod.rs: the body of cached_get_listing, from the answer of        *)
(* ajax_request on                                                         *)
(***************************************************************************)
\* ajax_request failed: transport, status or shape of the body
AjaxErr ==
    [ok |-> FALSE, illust_type |-> 0, page_count |-> 0, regular |-> None,
     original |-> None, create_date_ok |-> TRUE, profile_image_url |-> None]

\* a body whose userIllusts hold no profileImageUrl
AjaxOk(illust_type, page_count, regular, original, create_date_ok) ==
    [ok |-> TRUE, illust_type |-> illust_type, page_count |-> page_count,
     regular |-> regular, original |-> original, create_date_ok |-> create_date_ok,
     profile_image_url |-> None]

\* the same body with raw as the first profileImageUrl of its userIllusts
WithProfile(res, raw) == [res EXCEPT !.profile_image_url = raw]

\* raw_profile_image_url.and_then(|raw_url| url::Url::parse(&raw_url).ok().map(..))
ProfileImageUrl(host, raw) ==
    IF raw = None \/ UrlPath(raw[1]) = None THEN None
    ELSE Some(ProxyUrl(host, UrlPath(raw[1])[1]))

\* the page sequence of a static listing: (0..page_count).map(..)
StaticUrls(host, path, page_count, thumbnail_type) ==
    [n \in 1..page_count |->
        LET i == n - 1
            current_path == IF i = 0 THEN path ELSE Replace(path, "_p0_", PageMarker(i))
        IN  ProxyUrl(host,
                     IF thumbnail_type # None
                     THEN Replace(current_path, "img-master", thumbnail_type[1])
                     ELSE current_path)]

BuildFailed(kind, cause) == [kind |-> kind, cause |-> cause, listing |-> None]

\* mutant: an animated artwork collapses to two entries whether or not animation
\* support is enabled
BuildListing_UgoiraAlways(language, illust_id, host, res, e) ==
    LET clean_illust_id == TakeWhileNumeric(illust_id)
        is_ugoira == res.illust_type = 2
        image_url == IF res.regular # None THEN res.regular ELSE res.original
    IN  IF ~res.ok THEN BuildFailed("err", "ajax_request")
        ELSE IF image_url = None THEN BuildFailed("panic", "missing_image_url")
        ELSE IF UrlPath(image_url[1]) = None THEN BuildFailed("err", "url_parse")
        ELSE [kind |-> "ok", cause |-> "",
              listing |-> Some(
                [image_proxy_urls |->
                    IF is_ugoira
                    THEN <<UgoiraUrl(host, clean_illust_id),
                           ProxyUrl(host, UrlPath(image_url[1])[1])>>
                    ELSE StaticUrls(host, UrlPath(image_url[1])[1], res.page_count,
                                    e.thumbnail_type),
                 is_ugoira |-> is_ugoira,
                 create_date_ok |-> res.create_date_ok,
                 illust_id |-> clean_illust_id,
                 profile_image_url |-> ProfileImageUrl(host, res.profile_image_url),
                 language |-> language])]

\* cached_get_listing's body: Ok(listing), Err(..) or a panic
BuildListing(language, illust_id, host, res, e) ==
    LET clean_illust_id == TakeWhileNumeric(illust_id)
        is_ugoira == res.illust_type = 2
        \* .regular.or(.original)
        image_url == IF res.regular # None THEN res.regular ELSE res.original
    IN  IF ~res.ok THEN BuildFailed("err", "ajax_request")
        \* .unwrap() of None
        ELSE IF image_url = None THEN BuildFailed("panic", "missing_image_url")
        \* url::Url::parse(&image_url)?
        ELSE IF UrlPath(image_url[1]) = None THEN BuildFailed("err", "url_parse")
        ELSE [kind |-> "ok", cause |-> "",
              listing |-> Some(
                [image_proxy_urls |->
                    IF is_ugoira /\ e.ugoira_enabled
                    THEN <<UgoiraUrl(host, clean_illust_id),
                           ProxyUrl(host, UrlPath(image_url[1])[1])>>
                    ELSE StaticUrls(host, UrlPath(image_url[1])[1], res.page_count,
                                    e.thumbnail_type),
                 is_ugoira |-> is_ugoira,
                 create_date_ok |-> res.create_date_ok,
                 illust_id |-> clean_illust_id,
                 profile_image_url |-> ProfileImageUrl(host, res.profile_image_url),
                 language |-> language])]

(***************************************************************************)
(* The cache of #[cached]: SizedCache<String, ArtworkListing>, a list of   *)
(* entries with the most recently used first                               *)
(***************************************************************************)
\* stands for SizedCache::with_size(1024)
CacheSize == 2

\* convert = format!("{}_{}", language, illust_id)
Convert(language, illust_id) == language \o <<"_">> \o illust_id

Keys(c) == {c[i].key : i \in DOMAIN c}
Count(c, key) == Cardinality({i \in DOMAIN c : c[i].key = key})
\* the position of key's entry, 0 when it has none
CacheIndex(c, key) ==
    IF key \in Keys(c) THEN CHOOSE i \in DOMAIN c : c[i].key = key /\ \A j \in 1..(i - 1) : c[j].key # key
    ELSE 0
Value(c, key) == c[CacheIndex(c, key)].val

MoveToFront(c, i) == <<c[i]>> \o SubSeq(c, 1, i - 1) \o SubSeq(c, i + 1, Len(c))

\* mutant: a hit leaves the entry where it is in the order of use
CacheGet_NoTouch(c, key) ==
    IF CacheIndex(c, key) = 0 THEN [hit |-> FALSE, val |-> None, cache |-> c]
    ELSE [hit |-> TRUE, val |-> Some(c[CacheIndex(c, key)].val), cache |-> c]

\* mutant: a hit answers with the most recently used entry, whatever its key
CacheGet_Front(c, key) ==
    IF CacheIndex(c, key) = 0 THEN [hit |-> FALSE, val |-> None, cache |-> c]
    ELSE [hit |-> TRUE, val |-> Some(c[1].val), cache |-> MoveToFront(c, CacheIndex(c, key))]

\* cache.cache_get(&key): a hit moves the entry to the front
CacheGet(c, key) ==
    IF CacheIndex(c, key) = 0 THEN [hit |-> FALSE, val |-> None, cache |-> c]
    ELSE [hit |-> TRUE, val |-> Some(c[CacheIndex(c, key)].val),
          cache |-> MoveToFront(c, CacheIndex(c, key))]

\* SizedCache::check_capacity: a full cache drops its least recently used entry
CheckCapacity(c) == IF Len(c) >= CacheSize THEN SubSeq(c, 1, Len(c) - 1) ELSE c

\* mutant: the new entry is pushed without looking for the key
CacheSet_Push(c, key, val) == <<[key |-> key, val |-> val]>> \o CheckCapacity(c)

\* cache.cache_set(key, val): make room, push the new entry at the front and drop
\* the entry the key had before
CacheSet(c, key, val) ==
    <<[key |-> key, val |-> val]>> \o SelectSeq(CheckCapacity(c), LAMBDA e : e.key # key)

(***************************************************************************)
(* The renderers                                                           *)
(***************************************************************************)
SatSub(a, b) == IF a >= b THEN a - b ELSE 0

Rendered(status, cause, index, index_end) ==
    [status |-> status, cause |-> cause, index |-> index, index_end |-> index_end,
     activity_id |-> None]

\* the template of page index, carrying the activity id minted for it
Minted(index, activity_id) ==
    [Rendered("ok", "", Some(index), None) EXCEPT !.activity_id = Some(activity_id)]

\* mutant: the activity id is minted for the 1-based page number
ToTemplate_OneBased(listing, image_index) ==
    LET len == Len(listing.image_proxy_urls)
        index ==
            IF listing.is_ugoira THEN 0
            ELSE SatSub(UsizeMin(IF image_index = None THEN U64(1) ELSE image_index[1], len), 1)
    IN  IF index >= len THEN Rendered("panic", "index_out_of_bounds", None, None)
        ELSE IF ParseUnsigned(listing.illust_id, 4) = None
        THEN Rendered("panic", "illust_id_parse", Some(index), None)
        ELSE Minted(index,
                    ToU64([language |-> listing.language,
                           id |-> ParseUnsigned(listing.illust_id, 4)[1],
                           index |-> (index + 1) % 65536,
                           offset_end |-> 0]))

\* ArtworkListing::to_template, and the .unwrap() of its result in artwork_response;
\* image_index is the Option<usize> of the path, the usize as 8 bytes
ToTemplate(listing, image_index) ==
    LET len == Len(listing.image_proxy_urls)
        index ==
            IF listing.is_ugoira THEN 0
            ELSE SatSub(UsizeMin(IF image_index = None THEN U64(1) ELSE image_index[1], len), 1)
    IN  \* self.image_proxy_urls[index]
        IF index >= len THEN Rendered("panic", "index_out_of_bounds", None, None)
        \* self.illust_id.parse()? (u32), then .unwrap() in artwork_response
        ELSE IF ParseUnsigned(listing.illust_id, 4) = None
        THEN Rendered("panic", "illust_id_parse", Some(index), None)
        \* u64::from(ActivityId { language, id, index: index as u16 }); the fourth
        \* field, which to_template does not name, is 0
        ELSE Minted(index,
                    ToU64([language |-> listing.language,
                           id |-> ParseUnsigned(listing.illust_id, 4)[1],
                           index |-> index % 65536,
                           offset_end |-> 0]))

\* activity_handler after get_listing, and ActivityResponse::new's media_attachments;
\* index and offset_end are the fields of the decoded ActivityId
ActivityRender(listing, index0, offset_end) ==
    LET len == Len(listing.image_proxy_urls)
        index_max == SatSub(len, 1)
        index == Min(index0, index_max)
        index_end == Min(index + Min(offset_end, 2), index_max)
    IN  \* DateTime::parse_from_rfc3339(&listing.create_date).unwrap()
        IF ~listing.create_date_ok THEN Rendered("panic", "create_date", None, None)
        \* listing.image_proxy_urls[index..=index_end]
        ELSE IF index_end >= len
        THEN Rendered("panic", "index_out_of_bounds", Some(index), Some(index_end))
        \* listing.image_proxy_urls[1] for a URL that contains "ugoira"
        ELSE IF len < 2 /\ \E n \in (index + 1)..(index_end + 1) :
                               ContainsUgoira(listing.image_proxy_urls[n])
        THEN Rendered("panic", "index_out_of_bounds", Some(index), Some(index_end))
        ELSE Rendered("ok", "", Some(index), Some(index_end))

\* what the handler of request r makes of the listing get_listing returned
Render(r, listing) ==
    IF r.handler = "artwork" THEN ToTemplate(listing, r.image_index)
    ELSE ActivityRender(listing, r.index, r.offset_end)

(***************************************************************************)
(* Requests.  A task is idle, then waits for pixiv ("fetching"), then      *)
(* holds the listing it built and is about to take the cache lock again    *)
(* ("built"), then has answered ("done").                                  *)
(***************************************************************************)
Key(r) == Convert(r.language, r.illust_id)

Answer(rendered, from, listing, overwrote) ==
    [status |-> rendered.status, cause |-> rendered.cause, from |-> from,
     listing |-> listing, index |-> rendered.index, index_end |-> rendered.index_end,
     activity_id |-> rendered.activity_id, overwrote |-> overwrote]

\* the history of uses after a hit on key
TouchRecency(r, key) == <<key>> \o SelectSeq(r, LAMBDA k : k # key)
\* the history of uses after cache_set(key, ..) left the cache as c
SetRecency(r, key, c) == <<key>> \o SelectSeq(r, LAMBDA k : k \in Keys(c) /\ k # key)
\* the listings last returned, after key returned listing and the cache is c
Returned(lr, key, listing, c) ==
    {e \in lr : e.key # key /\ e.key \in Keys(c)} \cup {[key |-> key, listing |-> listing]}

\* get_listing up to the first lock of cached_get_listing: a hit is answered at
\* once, a miss goes on to ajax_request
Lookup(t, r) ==
    LET got == CacheGet(cache, Key(r))
    IN  /\ req' = [req EXCEPT ![t] = r]
        /\ cache' = got.cache
        /\ UNCHANGED <<fetched, built>>
        /\ IF got.hit
           THEN /\ pc' = [pc EXCEPT ![t] = "done"]
                /\ resp' = [resp EXCEPT ![t] = Answer(Render(r, got.val[1]), "hit", got.val, FALSE)]
                /\ recency' = TouchRecency(recency, Key(r))
                /\ lastRet' = Returned(lastRet, Key(r), got.val[1], got.cache)
           ELSE /\ pc' = [pc EXCEPT ![t] = "fetching"]
                /\ UNCHANGED <<resp, recency, lastRet>>

\* artwork_response: the path is converted (image_index parsed), then get_listing
ArtworkRequest(t, language, id, raw_index, host) ==
    LET image_index ==
            IF raw_index = None THEN Some(None)
            ELSE IF ParseUnsigned(TakeWhileNumeric(raw_index[1]), 8) = None THEN None
            ELSE Some(ParseUnsigned(TakeWhileNumeric(raw_index[1]), 8))
        r == [handler |-> "artwork",
              language |-> IF language = None THEN jp ELSE language[1],
              illust_id |-> id, host |-> host,
              image_index |-> IF image_index = None THEN None ELSE image_index[1],
              index |-> 0, offset_end |-> 0]
    IN  /\ pc[t] = "idle"
        /\ UNCHANGED <<codecVars, captionVars, env>>
        /\ IF image_index = None
           THEN /\ pc' = [pc EXCEPT ![t] = "done"]
                /\ req' = [req EXCEPT ![t] = r]
                /\ resp' = [resp EXCEPT ![t] =
                       Answer(Rendered("error", "image_index_parse", None, None), "", None, FALSE)]
                /\ UNCHANGED <<cache, fetched, built, recency, lastRet>>
           ELSE Lookup(t, r)

\* the call activity_handler makes of the u64 of its path: ActivityId::from, and
\* get_listing(activity_id.language, activity_id.id.to_string(), ..)
DecodedCall(value, host) ==
    LET activity_id == FromU64(value)
    IN  [handler |-> "activity", language |-> activity_id.language,
         illust_id |-> U32ToString(activity_id.id), host |-> host,
         image_index |-> None,
         index |-> activity_id.index, offset_end |-> activity_id.offset_end]

\* activity_handler: the id of the path, parsed as u64, is decoded, then get_listing
ActivityRequest(t, value, host) ==
    /\ pc[t] = "idle"
    /\ UNCHANGED <<codecVars, captionVars, env>>
    /\ Lookup(t, DecodedCall(value, host))

\* mutant: a failed build is cached as a listing without pages
AjaxReturns_CacheFailure(t, res) ==
    LET b == BuildListing(req[t].language, req[t].illust_id, req[t].host, res, env)
        placeholder == [image_proxy_urls |-> <<>>, is_ugoira |-> FALSE,
                        create_date_ok |-> TRUE, profile_image_url |-> None,
                        illust_id |-> TakeWhileNumeric(req[t].illust_id),
                        language |-> req[t].language]
    IN  /\ pc[t] = "fetching"
        /\ UNCHANGED <<codecVars, captionVars, env, req, recency, lastRet>>
        /\ IF b.kind = "ok"
           THEN /\ pc' = [pc EXCEPT ![t] = "built"]
                /\ fetched' = [fetched EXCEPT ![t] = Some(res)]
                /\ built' = [built EXCEPT ![t] = b.listing]
                /\ UNCHANGED <<resp, cache>>
           ELSE /\ pc' = [pc EXCEPT ![t] = "done"]
                /\ resp' = [resp EXCEPT ![t] =
                       Answer(Rendered(IF b.kind = "err" THEN "error" ELSE "panic",
                                       b.cause, None, None), "build", None, FALSE)]
                /\ cache' = CacheSet(cache, Key(req[t]), placeholder)
                /\ UNCHANGED <<fetched, built>>

\* the answer of ajax_request arrives and the body of cached_get_listing runs to
\* its end; an Err or a panic ends the request, nothing is written
AjaxReturns(t, res) ==
    LET b == BuildListing(req[t].language, req[t].illust_id, req[t].host, res, env)
    IN  /\ pc[t] = "fetching"
        /\ UNCHANGED <<codecVars, captionVars, env, cache, req, recency, lastRet>>
        /\ IF b.kind = "ok"
           THEN /\ pc' = [pc EXCEPT ![t] = "built"]
                /\ fetched' = [fetched EXCEPT ![t] = Some(res)]
                /\ built' = [built EXCEPT ![t] = b.listing]
                /\ UNCHANGED resp
           ELSE /\ pc' = [pc EXCEPT ![t] = "done"]
                /\ resp' = [resp EXCEPT ![t] =
                       Answer(Rendered(IF b.kind = "err" THEN "error" ELSE "panic",
                                       b.cause, None, None), "build", None, FALSE)]
                /\ UNCHANGED <<fetched, built>>

\* the second lock of cached_get_listing: cache_set of the Ok result, which is
\* returned and rendered
Store(t) ==
    /\ pc[t] = "built"
    /\ cache' = CacheSet(cache, Key(req[t]), built[t][1])
    /\ pc' = [pc EXCEPT ![t] = "done"]
    /\ resp' = [resp EXCEPT ![t] =
           Answer(Render(req[t], built[t][1]), "build", built[t],
                  Key(req[t]) \in Keys(cache))]
    /\ recency' = SetRecency(recency, Key(req[t]), cache')
    /\ lastRet' = Returned(lastRet, Key(req[t]), built[t][1], cache')
    /\ fetched' = [fetched EXCEPT ![t] = None]
    /\ built' = [built EXCEPT ![t] = None]
    /\ UNCHANGED <<codecVars, captionVars, env, req>>

\* the connection is closed; the task serves the next request
Recycle(t) ==
    /\ pc[t] = "done"
    /\ pc' = [pc EXCEPT ![t] = "idle"]
    /\ req' = [req EXCEPT ![t] = NoReq]
    /\ fetched' = [fetched EXCEPT ![t] = None]
    /\ built' = [built EXCEPT ![t] = None]
    /\ resp' = [resp EXCEPT ![t] = NoResp]
    /\ UNCHANGED <<codecVars, captionVars, env, cache, recency, lastRet>>

(***************************************************************************)
(* The cache under concurrent requests: two tasks, one more artwork than   *)
(* the cache holds, and pixiv answering each fetch with an error, an       *)
(* unparseable image URL or one of two versions of the artwork             *)
(***************************************************************************)
CacheIds == {<<ToString(i)>> : i \in 1..(CacheSize + 1)}
CacheResults ==
    {AjaxErr,
     AjaxOk(0, 1, Some(BadUrl), Some(OriginalUrl), TRUE),
     AjaxOk(0, 1, Some(RegularUrl), Some(OriginalUrl), TRUE),
     AjaxOk(0, 2, Some(RegularUrl), Some(OriginalUrl), TRUE)}

Init ==
    /\ cdc_t = None /\ cdc_enc = None /\ cdc_rt = None
    /\ cdc_v = None /\ cdc_dec = None /\ cdc_back = None
    /\ cap_html = None /\ cap_text = None
    /\ env = [ugoira_enabled |-> FALSE, thumbnail_type |-> None]
    /\ ColdStart

Request == \E t \in Tasks, id \in CacheIds : ArtworkRequest(t, None, id, None, "phixiv.net")
Fetched == \E t \in Tasks, res \in CacheResults : AjaxReturns(t, res)
Stored == \E t \in Tasks : Store(t)
Closed == \E t \in Tasks : Recycle(t)

Next == Request \/ Fetched \/ Stored \/ Closed

Spec == Init /\ [][Next]_vars

(***************************************************************************)
(* One request on a cold cache, over every shape of request and of         *)
(* upstream response                                                       *)
(***************************************************************************)
MaxPageCount == 4

Hosts == {"phixiv.net", "c.phixiv.net", "ugoira.phixiv.net"}
BuildLanguages == {None, Some(en), Some(fr)}
\* "1", "12", "01", "1a" and "tw_1", which has no leading digit
BuildIds == {<<"1">>, <<"1", "2">>, <<"0", "1">>, <<"1", "a">>, <<"t", "w", "_", "1">>}
BuildIndexes ==
    {None, Some(<<"0">>), Some(<<"1">>), Some(<<"2">>), Some(<<"9", "9">>),
     Some(<<"2", "x">>), Some(<<"x">>)}
BuildActivityIds ==
    {ToU64([language |-> l, id |-> AsU32(U64(n)), index |-> i, offset_end |-> o]) :
        l \in {jp, en}, n \in {1, 12}, i \in {0, 1, 2, 99}, o \in {0, 1, 2, 255}}
\* urls.regular and urls.original as pixiv sends them together
BuildUrls ==
    {<<None, None>>, <<Some(RegularUrl), Some(OriginalUrl)>>, <<Some(BadUrl), Some(OriginalUrl)>>,
     <<None, Some(OriginalUrl)>>, <<None, Some(UgoiraFrameUrl)>>}
BuildResults ==
    {AjaxErr}
    \cup {AjaxOk(ty, n, u[1], u[2], d) :
              ty \in {0, 2}, n \in 0..MaxPageCount, u \in BuildUrls, d \in BOOLEAN}
    \cup {WithProfile(AjaxOk(ty, 1, Some(RegularUrl), Some(OriginalUrl), TRUE), p) :
              ty \in {0, 2}, p \in {Some(ProfileUrl), Some(BadUrl)}}

InitBuild ==
    /\ cdc_t = None /\ cdc_enc = None /\ cdc_rt = None
    /\ cdc_v = None /\ cdc_dec = None /\ cdc_back = None
    /\ cap_html = None /\ cap_text = None
    /\ env \in [ugoira_enabled : BOOLEAN, thumbnail_type : {None, Some("custom-thumbnail")}]
    /\ ColdStart

OneArtwork ==
    \E language \in BuildLanguages, id \in BuildIds, raw_index \in BuildIndexes, host \in Hosts :
        ArtworkRequest("t1", language, id, raw_index, host)
OneActivity == \E value \in BuildActivityIds, host \in Hosts : ActivityRequest("t1", value, host)
OneFetched == \E res \in BuildResults : AjaxReturns("t1", res)
OneStored == Store("t1")

NextBuild == OneArtwork \/ OneActivity \/ OneFetched \/ OneStored

SpecBuild == InitBuild /\ [][NextBuild]_vars

(***************************************************************************)
(* Requests one after another that may meet in the cache: the artwork 1    *)
(* and the id tw_1, in zh and zh_tw, under two hosts                       *)
(***************************************************************************)
ShareLanguages == {Some(zh), Some(zh_tw)}
ShareIds == {<<"1">>, <<"t", "w", "_", "1">>}
ShareHosts == {"phixiv.net", "c.phixiv.net"}
ShareActivityIds ==
    {ToU64([language |-> l, id |-> AsU32(U64(1)), index |-> 0, offset_end |-> 0]) :
        l \in {zh, zh_tw}}
ShareResults ==
    {AjaxErr,
     WithProfile(AjaxOk(0, 1, Some(RegularUrl), Some(OriginalUrl), TRUE), Some(ProfileUrl))}

ShareArtwork ==
    \E language \in ShareLanguages, id \in ShareIds, host \in ShareHosts :
        ArtworkRequest("t1", language, id, None, host)
ShareActivity ==
    \E value \in ShareActivityIds, host \in ShareHosts : ActivityRequest("t1", value, host)
ShareFetched == \E res \in ShareResults : AjaxReturns("t1", res)
ShareStored == Store("t1")
ShareClosed == Recycle("t1")

NextShare == ShareArtwork \/ ShareActivity \/ ShareFetched \/ ShareStored \/ ShareClosed

SpecShare == Init /\ [][NextShare]_vars

(***************************************************************************)
(* pixiv/mod.rs: extract_html_inner_text.  A string is a sequence of       *)
(* tokens: the characters the two patterns look at (< > / $, white space,  *)
(* the letters of tag names) are tokens of their own, a run of other text  *)
(* may be one token.                                                       *)
(***************************************************************************)
\* \s
IsSpace(c) == c \in {" ", "\n"}

RECURSIVE SpaceRun(_, _)
\* the length of the run of white space of s that starts at position i
SpaceRun(s, i) == IF i <= Len(s) /\ IsSpace(s[i]) THEN 1 + SpaceRun(s, i + 1) ELSE 0

\* every token of s[a..b] is outside banned
AllOutside(s, a, b, banned) == \A i \in a..b : s[i] \notin banned

\* the position of the first ">" after position b, or 0
FirstGt(s, b) ==
    IF \E g \in (b + 1)..Len(s) : s[g] = ">"
    THEN CHOOSE g \in (b + 1)..Len(s) : s[g] = ">" /\ \A h \in (b + 1)..(g - 1) : s[h] # ">"
    ELSE 0

\* </\k<tag>\s*> at position e: the position of its ">", or 0
CloseEnd(s, e, tag) ==
    LET after_name == e + 2 + Len(tag)
        gt == after_name + SpaceRun(s, after_name)
    IN  IF /\ gt <= Len(s)
           /\ s[e] = "<" /\ s[e + 1] = "/"
           /\ SubSeq(s, e + 2, after_name - 1) = tag
           /\ s[gt] = ">"
        THEN gt ELSE 0

\* (?<inner>.*?)</\k<tag>\s*>(?<after>[^$]*)$ from position g + 1 on: the start of
\* the first closing tag that leaves an inner text outside dot_ban and a remainder
\* outside after_ban, or 0
FindClose(s, g, tag, dot_ban, after_ban) ==
    LET ends == {e \in (g + 1)..Len(s) :
                    /\ CloseEnd(s, e, tag) # 0
                    /\ AllOutside(s, g + 1, e - 1, dot_ban)
                    /\ AllOutside(s, CloseEnd(s, e, tag) + 1, Len(s), after_ban)}
    IN  IF ends = {} THEN 0 ELSE CHOOSE e \in ends : \A f \in ends : e <= f

\* <(?<tag>[^\s>]+)(?:\s*[^>]+)?> at position b: the lengths the tag name can take
\* (what is left up to the first ">" is matched by the optional group), for which
\* the rest of the pattern matches
TagLengths(s, b, dot_ban, after_ban) ==
    LET g == FirstGt(s, b)
    IN  IF s[b] # "<" \/ g = 0 THEN {}
        ELSE {n \in 1..(g - b - 1) :
                 /\ \A i \in (b + 1)..(b + n) : ~IsSpace(s[i])
                 /\ FindClose(s, g, SubSeq(s, b + 1, b + n), dot_ban, after_ban) # 0}

\* re.captures(&segment): the first match in the order of a backtracking matcher,
\* that is the shortest before, then the longest tag name, then the shortest inner;
\* None when the pattern does not match
Captures(s, dot_ban, after_ban) ==
    LET starts == {b \in 1..Len(s) :
                      /\ AllOutside(s, 1, b - 1, dot_ban)
                      /\ TagLengths(s, b, dot_ban, after_ban) # {}}
    IN  IF starts = {} THEN None
        ELSE LET b == CHOOSE x \in starts : \A y \in starts : x <= y
                 lens == TagLengths(s, b, dot_ban, after_ban)
                 n == CHOOSE x \in lens : \A y \in lens : x >= y
                 g == FirstGt(s, b)
                 tag == SubSeq(s, b + 1, b + n)
                 e == FindClose(s, g, tag, dot_ban, after_ban)
             IN  Some([before |-> SubSeq(s, 1, b - 1),
                       tag |-> tag,
                       inner |-> SubSeq(s, g + 1, e - 1),
                       after |-> SubSeq(s, CloseEnd(s, e, tag) + 1, Len(s))])

RECURSIVE StripTags(_, _, _, _)
\* the while loop over string_segments (the last element is popped), appending to
\* full_string
StripTags(string_segments, full_string, dot_ban, after_ban) ==
    IF string_segments = <<>> THEN full_string
    ELSE LET segment == string_segments[Len(string_segments)]
             rest == SubSeq(string_segments, 1, Len(string_segments) - 1)
             captures == Captures(segment, dot_ban, after_ban)
         IN  IF captures = None
             THEN StripTags(rest, full_string \o segment, dot_ban, after_ban)
             ELSE StripTags(rest \o <<captures[1].after,
                                      IF captures[1].tag = <<"a">>
                                      THEN <<" ">> \o captures[1].inner \o <<" ">>
                                      ELSE captures[1].inner>>,
                            full_string \o captures[1].before, dot_ban, after_ban)

\* <br\s*/?> at position i: the position of its ">", or 0
BrEnd(s, i) ==
    LET j == i + 3 + SpaceRun(s, i + 3)
    IN  IF i + 2 > Len(s) \/ s[i] # "<" \/ s[i + 1] # "b" \/ s[i + 2] # "r" THEN 0
        ELSE IF j + 1 <= Len(s) /\ s[j] = "/" /\ s[j + 1] = ">" THEN j + 1
        ELSE IF j <= Len(s) /\ s[j] = ">" THEN j
        ELSE 0

RECURSIVE SplitBr(_, _, _)
\* Regex::new(r"<br\s*/?>").split(&full_string), from position i with piece begun
SplitBr(s, i, piece) ==
    IF i > Len(s) THEN <<piece>>
    ELSE IF BrEnd(s, i) # 0 THEN <<piece>> \o SplitBr(s, BrEnd(s, i) + 1, <<>>)
    ELSE SplitBr(s, i + 1, piece \o <<s[i]>>)

RECURSIVE TrimStart(_)
TrimStart(s) == IF s # <<>> /\ IsSpace(Head(s)) THEN TrimStart(Tail(s)) ELSE s

RECURSIVE TrimEnd(_)
TrimEnd(s) ==
    IF s # <<>> /\ IsSpace(s[Len(s)]) THEN TrimEnd(SubSeq(s, 1, Len(s) - 1)) ELSE s

\* str::trim
Trim(s) == TrimEnd(TrimStart(s))

RECURSIVE JoinLines(_)
\* .collect::<Vec<String>>().join("\n")
JoinLines(segments) ==
    IF segments = <<>> THEN <<>>
    ELSE IF Len(segments) = 1 THEN segments[1]
    ELSE segments[1] \o <<"\n">> \o JoinLines(Tail(segments))

\* the function with the two character classes of its pattern left open: dot_ban is
\* what "." does not match, after_ban what the class of "after" does not match
ExtractWith(html, dot_ban, after_ban) ==
    LET full_string == StripTags(<<html>>, <<>>, dot_ban, after_ban)
        pieces == SplitBr(full_string, 1, <<>>)
    IN  JoinLines([k \in DOMAIN pieces |-> Trim(pieces[k])])

\* ArtworkListing::extract_html_inner_text: "." matches all but the line feed, and
\* [^$] all but the dollar sign
extract_html_inner_text(html) == ExtractWith(html, {"\n"}, {"$"})

(***************************************************************************)
(* extract_html_inner_text on its own: one caption through the function    *)
(***************************************************************************)
\* the caption of the function's documentation test
DocFixture ==
    <<" ", " ", " ", " ", "Caption:", "<", "a", " ", "href=\"", "/",
      "jump.php?https%3A%2F%2Fexample.com%2F\"", " ", "target=\"_blank\"", ">",
      "https:", "/", "/", "example.com", "/", "<", "/", "a", ">", "a", "<", "N", "O",
      "T", " ", "A", " ", "TAG", ">", "<", "b", "r", " ", "/", ">", "b", "<", "s",
      "p", "a", "n", " ", "style=\"color:#fff;\"", ">", "_", "<", "/", "s", "p", "a",
      "n", " ", ">", "<", "s", "t", "r", "o", "n", "g", ">", "STRONG", "<", "/", "s",
      "t", "r", "o", "n", "g", " ", " ", ">", "<", "i", ">", " ", " ", "I", "<", "x",
      ">", "I", " ", " ", "<", "/", "i", ">", "<", "b", "r", " ", ">", "<", "s", ">",
      "S0", "<", "b", "r", ">", "S1", "<", "/", "s", ">", "<", "e", "m", "p", "t",
      "y", ">", "<", "/", "e", "m", "p", "t", "y", " ", " ", " ", " ", ">", "<", "b",
      "r", " ", " ", "/", ">", "<", "a", ">", "https:", "/", "/", "example.com", "/",
      "<", "/", "a", ">", "<", "b", "r", " ", " ", "/", ">", "<", "s", "t", "r", "o",
      "n", "g", ">", "A", "<", "i", ">", " ", "More", " ", "<", "/", "i", ">", "Com",
      "<", ">", "ple", "<", "x", ">", " ", "<", "s", ">", "One", "<", "/", "s", ">",
      "<", "/", "s", "t", "r", "o", "n", "g", ">", " ", " ", " ", " ">>

\* captions are put together from at most MaxPieces of these pieces
MaxPieces == 4
CaptionPieces ==
    {<<"<", "b", ">">>, <<"<", "/", "b", ">">>, <<"<", "a", ">">>, <<"<", "/", "a", ">">>,
     <<"<", "b", "r", ">">>, <<"x">>, <<" ">>, <<"$">>, <<"\n">>}

RECURSIVE Concats(_)
Concats(n) ==
    IF n = 0 THEN {<<>>}
    ELSE Concats(n - 1) \cup {c \o p : c \in Concats(n - 1), p \in CaptionPieces}

InitCaption ==
    /\ cdc_t = None /\ cdc_enc = None /\ cdc_rt = None
    /\ cdc_v = None /\ cdc_dec = None /\ cdc_back = None
    /\ cap_html \in {Some(html) : html \in Concats(MaxPieces) \cup {DocFixture}}
    /\ cap_text = None
    /\ env = [ugoira_enabled |-> FALSE, thumbnail_type |-> None]
    /\ ColdStart

Extract ==
    /\ cap_html # None /\ cap_text = None
    /\ cap_text' = Some(extract_html_inner_text(cap_html[1]))
    /\ UNCHANGED <<cap_html, codecVars, mainVars>>

NextCaption == Extract

SpecCaption == InitCaption /\ [][NextCaption]_vars

(***************************************************************************)
(* Claims about the caption extractor                                      *)
(***************************************************************************)
RECURSIVE Flatten(_)
\* the tokens of s written out as one string
Flatten(s) == IF s = <<>> THEN "" ELSE Head(s) \o Flatten(Tail(s))

\* the six segments listed for the documented caption, joined by line feeds
DocExpected ==
    "Caption: https://example.com/ a<NOT A TAG>" \o "\n" \o "b_STRONG  I<x>I" \o "\n"
    \o "S0" \o "\n" \o "S1" \o "\n" \o "https://example.com/" \o "\n"
    \o "A More Com<>ple<x> One"

\* C14 as stated: for every caption the function returns what the stated algorithm
\* gives, in which "anything" before, inside and after the first well-formed tag pair
\* is any text at all (the pattern with no character excluded from ".", nor from the
\* remainder); and the documented caption comes out as the six listed segments.
C14_FollowsStatedAlgorithm ==
    cap_text # None =>
        /\ cap_text[1] = ExtractWith(cap_html[1], {}, {})
        /\ cap_html[1] = DocFixture => Flatten(cap_text[1]) = DocExpected

(***************************************************************************)
(* Claims about the cache                                                  *)
(***************************************************************************)
\* task t's build has failed in this step: an Err or a panic out of the body
BuildFails(t) == pc[t] = "fetching" /\ pc'[t] = "done"
\* task t writes its Ok result and returns in this step
Writes(t) == pc[t] = "built" /\ pc'[t] = "done"
\* task t is answered from the cache in this step
Hits(t) == pc[t] = "idle" /\ pc'[t] = "done" /\ resp'[t].from = "hit"

\* C4: a build failure is never cached: a step in which a build fails leaves the
\* cache as it was and returns no listing; an entry appears in the cache or changes
\* its value only in the step of a task whose build returned Ok, and holds that
\* build's listing; and a call for a key that is not cached goes to the builder.
C4_FailureNotCached ==
    [][/\ \A t \in Tasks : BuildFails(t) =>
              /\ cache' = cache
              /\ resp'[t].status \in {"error", "panic"}
              /\ resp'[t].listing = None
       /\ \A i \in DOMAIN cache' :
              (cache'[i].key \notin Keys(cache) \/ Value(cache, cache'[i].key) # cache'[i].val)
                  => \E t \in Tasks : /\ Writes(t)
                                      /\ Key(req[t]) = cache'[i].key
                                      /\ built[t] = Some(cache'[i].val)
       /\ \A t \in Tasks :
              (pc[t] = "idle" /\ pc'[t] # "idle" /\ resp'[t].cause # "image_index_parse"
               /\ Key(req'[t]) \notin Keys(cache))
                  => pc'[t] = "fetching"
      ]_vars

\* a build has failed while the cache held an entry, the failed key is not cached,
\* and the other task, idle, can call for the same key and is sent to the builder
C4_Witness ==
    \E t \in Tasks, u \in Tasks :
        /\ pc[t] = "done" /\ resp[t].from = "build" /\ resp[t].status = "error"
        /\ cache # <<>>
        /\ Key(req[t]) \notin Keys(cache)
        /\ pc[u] = "idle"
        /\ ENABLED (/\ ArtworkRequest(u, None, req[t].illust_id, None, req[t].host)
                    /\ pc'[u] = "fetching")

\* C5: the cache never holds more than CacheSize entries, and an entry leaves the
\* cache only when the cache is full and a build is written, and is then the least
\* recently used one, a hit and a write counting as a use.
C5_BoundedLru ==
    [][/\ Len(cache') <= CacheSize
       /\ \A k \in Keys(cache) \ Keys(cache') :
              /\ Len(cache) = CacheSize
              /\ \E t \in Tasks : Writes(t)
              /\ k = recency[Len(recency)]
      ]_vars

\* the cache is full, a key that was returned from a build is no longer cached, and
\* the other task has since been answered from the cache
C5_Witness ==
    \E t \in Tasks, u \in Tasks :
        /\ Len(cache) = CacheSize
        /\ pc[t] = "done" /\ resp[t].status = "ok" /\ resp[t].from = "build"
        /\ Key(req[t]) \notin Keys(cache)
        /\ pc[u] = "done" /\ resp[u].from = "hit"

\* C6: under any interleaving, a call that writes returns the listing its own build
\* produced and leaves exactly one entry for its key, holding that listing; no key
\* ever has two entries; and the value cached for a key changes only in the write
\* of a task called for that key.
C6_LastWriteWins ==
    [][/\ \A t \in Tasks : Writes(t) =>
              /\ resp'[t].listing = built[t]
              /\ Count(cache', Key(req[t])) = 1
              /\ Value(cache', Key(req[t])) = built[t][1]
       /\ \A k \in Keys(cache') : Count(cache', k) = 1
       /\ \A k \in Keys(cache) \cap Keys(cache') :
              Value(cache', k) # Value(cache, k)
                  => \E t \in Tasks : Writes(t) /\ Key(req[t]) = k
      ]_vars

\* both tasks missed the same key and built different listings; the second write
\* found the first one's entry, and the cache holds the second listing
C6_Witness ==
    \E t \in Tasks, u \in Tasks :
        /\ t # u
        /\ pc[t] = "done" /\ pc[u] = "done"
        /\ Key(req[t]) = Key(req[u])
        /\ resp[t].from = "build" /\ resp[u].from = "build"
        /\ resp[t].listing # None /\ resp[u].listing # None
        /\ resp[t].listing # resp[u].listing
        /\ resp[u].overwrote
        /\ Count(cache, Key(req[u])) = 1
        /\ Some(Value(cache, Key(req[u]))) = resp[u].listing

\* C7: a hit returns exactly the value stored under the key at that moment, and it
\* is the listing the latest completed call for that key returned, provided the key
\* has not been evicted since.
C7_HitReturnsStored ==
    [][\A t \in Tasks : Hits(t) =>
          /\ Key(req'[t]) \in Keys(cache)
          /\ resp'[t].listing = Some(Value(cache, Key(req'[t])))
          /\ \A e \in lastRet : e.key = Key(req'[t]) => resp'[t].listing = Some(e.listing)
      ]_vars

\* one task built and returned a two-page listing, and the other, calling for the
\* same key afterwards, was answered with the same listing from the cache
C7_Witness ==
    \E t \in Tasks, u \in Tasks :
        /\ pc[t] = "done" /\ resp[t].from = "build" /\ resp[t].listing # None
        /\ pc[u] = "done" /\ resp[u].from = "hit"
        /\ Key(req[t]) = Key(req[u])
        /\ resp[u].listing = resp[t].listing
        /\ Len(resp[u].listing[1].image_proxy_urls) = 2
        /\ \E e \in lastRet : e.key = Key(req[u]) /\ Some(e.listing) = resp[u].listing

(***************************************************************************)
(* Claims about the builder and the renderers                              *)
(***************************************************************************)
\* C8 as stated: every listing a build returns Ok has at least one entry in
\* image_proxy_urls, whatever pixiv answered, and no renderer indexes past its end.
C8_NeverEmpty ==
    \A t \in Tasks :
        /\ built[t] # None => Len(built[t][1].image_proxy_urls) >= 1
        /\ resp[t].listing # None => Len(resp[t].listing[1].image_proxy_urls) >= 1
        /\ resp[t].cause # "index_out_of_bounds"

\* the 1-based page a path asks for is beyond n
Beyond(image_index, n) == image_index # None /\ UsizeMin(image_index[1], n + 1) = n + 1

\* C9 as stated: once a listing of n pages is at hand, the HTML renderer (for an
\* artwork that is not animated) selects page n - 1 for a 1-based index above n and
\* page 0 for index 0 or none, and the activity handler selects page n - 1 for a
\* decoded index above n - 1; neither ends on an index out of bounds.
C9_ClampToLastPage ==
    \A t \in Tasks :
        (pc[t] = "done" /\ resp[t].listing # None) =>
            LET listing == resp[t].listing[1]
                n == Len(listing.image_proxy_urls)
            IN  /\ resp[t].cause # "index_out_of_bounds"
                /\ (req[t].handler = "artwork" /\ ~listing.is_ugoira) =>
                      /\ Beyond(req[t].image_index, n) => resp[t].index = Some(n - 1)
                      /\ (req[t].image_index \in {None, Some(U64(0))}) => resp[t].index = Some(0)
                /\ (req[t].handler = "activity" /\ listing.create_date_ok
                    /\ req[t].index > n - 1) => resp[t].index = Some(n - 1)

\* C11 as stated: an identifier that is empty after cleaning is answered with an
\* error before any fetch: no task ever waits for pixiv on an empty cleaned id.
C11_NoFetchOfEmptyId ==
    \A t \in Tasks : pc[t] = "fetching" => TakeWhileNumeric(req[t].illust_id) # <<>>

\* C12: for an answer of illust type 2: with animation support enabled the built
\* image_proxy_urls are exactly two, the /i/ugoira/{id}.mp4 URL of the cleaned id and
\* then the URL of page 0 (the image path as sent, under the request's host and /i,
\* with or without the size substitution); with animation support disabled they are
\* exactly the page_count static page URLs a non-animated artwork gets.
C12_UgoiraEntries ==
    \A t \in Tasks :
        (pc[t] = "built" /\ fetched[t][1].illust_type = 2) =>
            LET res == fetched[t][1]
                urls == built[t][1].image_proxy_urls
                host == req[t].host
                path == UrlPath(IF res.regular # None THEN res.regular[1]
                                ELSE res.original[1])[1]
            IN  IF env.ugoira_enabled
                THEN /\ Len(urls) = 2
                     /\ urls[1] = [host |-> host,
                                   path |-> <<"/i", "/ugoira/">>
                                            \o TakeWhileNumeric(req[t].illust_id)
                                            \o <<".mp4">>]
                     /\ urls[2].host = host
                     /\ \/ urls[2].path = <<"/i">> \o path
                        \/ /\ env.thumbnail_type # None
                           /\ urls[2].path =
                                  <<"/i">> \o Replace(path, "img-master", env.thumbnail_type[1])
                ELSE /\ Len(urls) = res.page_count
                     /\ urls = StaticUrls(host, path, res.page_count, env.thumbnail_type)

\* an animated artwork was built into the video URL and the still frame with
\* animation support enabled
C12_Witness ==
    /\ env.ugoira_enabled
    /\ pc["t1"] = "built"
    /\ built["t1"][1].is_ugoira
    /\ Len(built["t1"][1].image_proxy_urls) = 2
    /\ ContainsUgoira(built["t1"][1].image_proxy_urls[1])
    /\ ~ContainsUgoira(built["t1"][1].image_proxy_urls[2])

\* C13 as stated: the status the activity handler produces for a decoded id with
\* page index i and offset_end k, on a listing of n pages, attaches exactly the pages
\* min(i, n - 1) through min(i + k, n - 1), in order (the handler's index..=index_end).
C13_OnePerRequestedPage ==
    \A t \in Tasks :
        (pc[t] = "done" /\ req[t].handler = "activity" /\ resp[t].status = "ok") =>
            LET n == Len(resp[t].listing[1].image_proxy_urls)
            IN  /\ resp[t].index = Some(Min(req[t].index, n - 1))
                /\ resp[t].index_end = Some(Min(req[t].index + req[t].offset_end, n - 1))

\* C15 as stated: with a thumbnail-size substitution configured, no URL of a built
\* listing keeps the img-master segment: not a static page URL, and not the
\* still-frame URL of an animated listing.
C15_ThumbnailEverywhere ==
    \A t \in Tasks :
        (pc[t] = "built" /\ env.thumbnail_type # None) =>
            \A k \in DOMAIN built[t][1].image_proxy_urls :
                \A j \in DOMAIN built[t][1].image_proxy_urls[k].path :
                    built[t][1].image_proxy_urls[k].path[j] # "img-master"

\* C19 as stated: the activity handler, given a listing that has a page and any
\* decoded id, never ends on an index out of bounds (listings without pages are the
\* matter of C8), and an attachment whose URL contains "ugoira"
\* (a video, with image_proxy_urls[1] as preview) is the synthesized asset of an
\* animated listing, which has a second entry.
C19_ActivityInBounds ==
    \A t \in Tasks :
        (/\ pc[t] = "done" /\ req[t].handler = "activity" /\ resp[t].listing # None
         /\ resp[t].listing[1].image_proxy_urls # <<>>) =>
            LET listing == resp[t].listing[1]
                urls == listing.image_proxy_urls
            IN  /\ resp[t].cause # "index_out_of_bounds"
                /\ resp[t].status = "ok" =>
                       \A n \in resp[t].index[1]..resp[t].index_end[1] :
                           ContainsUgoira(urls[n + 1]) =>
                               /\ Len(urls) >= 2
                               /\ listing.is_ugoira
                               /\ urls[n + 1] = UgoiraUrl(req[t].host, listing.illust_id)

\* C18 as stated: the activity id the HTML renderer mints for a listing and the
\* page it selected, decoded by the activity handler, calls for the listing's
\* language and illustration id and carries the selected page index, whatever the
\* language.
C18_Original ==
    \A t \in Tasks :
        (pc[t] = "done" /\ req[t].handler = "artwork" /\ resp[t].status = "ok") =>
            LET call == DecodedCall(resp[t].activity_id[1], req[t].host)
            IN  /\ call.language = resp[t].listing[1].language
                /\ TakeWhileNumeric(call.illust_id) = resp[t].listing[1].illust_id
                /\ call.index = resp[t].index[1]

\* C18 as amended: the HTML renderer accepts a listing only when its cleaned id
\* parses as a 32-bit number; the activity id it then mints for the selected page
\* (an index below 65536), decoded by the activity handler, calls for the same
\* illustration id as a number (in canonical decimal form: 01 comes back as 1),
\* carries the same page index, and calls for the listing's language when that is
\* one of jp/en/zh/zh_tw/ko and for jp otherwise.
C18_MintedIdResolves ==
    \A t \in Tasks :
        (pc[t] = "done" /\ req[t].handler = "artwork" /\ resp[t].listing # None) =>
            LET listing == resp[t].listing[1]
                id == ParseUnsigned(listing.illust_id, 4)
            IN  /\ resp[t].status = "ok" => (id # None /\ resp[t].activity_id # None)
                /\ (id = None /\ listing.image_proxy_urls # <<>>) =>
                       (resp[t].status = "panic" /\ resp[t].cause = "illust_id_parse")
                /\ resp[t].status = "ok" =>
                       LET call == DecodedCall(resp[t].activity_id[1], req[t].host)
                       IN  /\ ParseUnsigned(TakeWhileNumeric(call.illust_id), 4) = id
                           /\ call.illust_id = U32ToString(id[1])
                           /\ call.index = resp[t].index[1]
                           /\ call.language =
                                  (IF listing.language \in KnownLanguages
                                   THEN listing.language ELSE jp)

\* the third page of the English listing of artwork 12 was rendered, and the
\* minted id decodes to en, 12 and page index 2
C18_Witness ==
    /\ pc["t1"] = "done" /\ req["t1"].handler = "artwork" /\ resp["t1"].status = "ok"
    /\ resp["t1"].listing[1].language = en
    /\ resp["t1"].listing[1].illust_id = <<"1", "2">>
    /\ resp["t1"].index = Some(2)
    /\ DecodedCall(resp["t1"].activity_id[1], "phixiv.net").language = en
    /\ DecodedCall(resp["t1"].activity_id[1], "phixiv.net").illust_id = <<"1", "2">>
    /\ DecodedCall(resp["t1"].activity_id[1], "phixiv.net").index = 2

\* C16 as stated: whatever calls came before, a call get_listing(language, id)
\* returns only a listing built for its own pair of language and cleaned id.
C16_KeySeparatesRequests ==
    \A t \in Tasks :
        (pc[t] = "done" /\ resp[t].listing # None) =>
            /\ resp[t].listing[1].language = req[t].language
            /\ resp[t].listing[1].illust_id = TakeWhileNumeric(req[t].illust_id)

\* C17 as stated: every listing a request receives, built for it or taken from the
\* cache, has all its image_proxy_urls and its profile_image_url under the host of
\* that request.
C17_HostOfTheRequest ==
    \A t \in Tasks :
        (pc[t] = "done" /\ resp[t].listing # None) =>
            LET listing == resp[t].listing[1]
            IN  /\ \A k \in DOMAIN listing.image_proxy_urls :
                       listing.image_proxy_urls[k].host = req[t].host
                /\ listing.profile_image_url # None =>
                       listing.profile_image_url[1].host = req[t].host

\* C10 as stated: a response with neither the regular nor the original URL ends the
\* build with an error value returned to the caller, no listing and nothing cached.
C10_MissingImageUrlIsError ==
    \A t \in Tasks :
        resp[t].cause = "missing_image_url" =>
            /\ resp[t].status = "error"
            /\ resp[t].listing = None
            /\ cache = <<>>

====
